---- MODULE Spec2Model ----
(***************************************************************************)
(* The email-template backend of src/server.js: five REST routes over one  *)
(* MongoDB collection (through mongoose) and one image upload route        *)
(* (through multer and the Cloudinary storage engine).                     *)
(*                                                                         *)
(* Spec      : every route and every request body, requests handled one    *)
(*             after the other; at most MaxDocs templates are created.     *)
(* SpecIds   : the template routes over up to MaxId templates.             *)
(* SpecClock : the template routes while Date.now() advances.              *)
(* SpecConc  : two requests in flight at once; a handler is split at its   *)
(*             single await, the store call.                               *)
(***************************************************************************)
EXTENDS Integers, Sequences, FiniteSets, TLC

\* ------------------------------------------------------------------ bounds
MaxId == 3       \* ObjectIds a client may name: 1..MaxId
MaxDocs == 1     \* templates created under Spec and SpecClock
MaxClock == 1    \* Date.now() ranges over 0..MaxClock

\* ------------------------------------------------------- values of requests
Undefined == "<undefined>"   \* a key absent from req.body
Null == "<null>"             \* JSON null
BadId == 0                   \* an :id that does not cast to an ObjectId
NoId == -1                   \* a response that concerns no :id

\* sections are sequences; an absent key and a stored null are one-element
\* sequences no request array equals
NoSections == <<Undefined>>
NullSections == <<Null>>
S12 == <<"s1", "s2">>
S21 == <<"s2", "s1">>

Titles == {"A", "B", "", Null, Undefined}
SectionsIn == {S12, S21, NoSections}
Ids == {BadId} \cup (1..MaxId)
AllowedFormats == {"jpg", "png", "jpeg", "gif"}
\* an upload request: no file part, a file part under another field name, or
\* a file part named `image` of some format
Uploads == {"none", "other", "png", "bmp"}
Procs == {1, 2}              \* the requests in flight under SpecConc

VARIABLES
  store,          \* the collection: documents in insertion order
  nextId,         \* the next ObjectId the driver generates
  clock,          \* Date.now()
  omitUndefined,  \* the installed mongoose drops undefined keys of an update
  hosted,         \* formats of the files held by the media host
  res,            \* the last response sent (one request at a time)
  created,        \* history: ids returned by a 201
  deleted,        \* history: ids whose DELETE answered 200
  inflight,       \* SpecConc: per request slot, the request and its response
  store0          \* SpecConc: history, the collection before the requests

vars == <<store, nextId, clock, omitUndefined, hosted, res, created, deleted,
          inflight, store0>>

\* ---------------------------------------------------------------- helpers
StoreIds(st) == {st[i].id : i \in 1..Len(st)}

Find(st, id) == SelectSeq(st, LAMBDA d : d.id = id)

Remove(st, id) == SelectSeq(st, LAMBDA d : d.id # id)

Replace(st, doc) == [i \in 1..Len(st) |-> IF st[i].id = doc.id THEN doc ELSE st[i]]

\* ObjectId cast of a route parameter
CastsToObjectId(id) == id # BadId

RequiredNever(title) == TRUE

\* `required: true` on a String path
RequiredOk(title) == title \notin {Undefined, Null, ""}

SectionsAlwaysDefault(sections) == <<>>

\* `default: []` of the sections path
SectionsDefault(sections) == IF sections = NoSections THEN <<>> ELSE sections

SetTitleKeeps(old, new, omit) == old

\* the title key of the $set of findByIdAndUpdate
SetTitle(old, new, omit) ==
  IF new = Undefined THEN (IF omit THEN old ELSE Null) ELSE new

\* the sections key of the $set of findByIdAndUpdate
SetSections(old, new, omit) ==
  IF new = NoSections THEN (IF omit THEN old ELSE NullSections) ELSE new

\* ------------------------------------------------------------- responses
\* res.status(..).json(..): docs is the document, or the documents, of the body
Json(op, id, status, error, docs) ==
  [op |-> op, id |-> id, status |-> status, ctype |-> "json",
   error |-> error, docs |-> docs]

\* express's default error handler: next(err) with no error middleware
DefaultErrorHandler(op, status) ==
  [op |-> op, id |-> NoId, status |-> status, ctype |-> "html",
   error |-> "", docs |-> <<>>]

NoResponse == Json("none", NoId, 0, "", <<>>)

\* -------------------------------------------------------------- handlers
\* Each returns [st, res]: the collection after the request and the response.
\* ok: the store call is answered (FALSE: it rejects, the catch block runs).

CreateHandler(st, id, now, title, sections, ok) ==
  IF RequiredOk(title) /\ ok
  THEN LET doc == [id |-> id, title |-> title,
                   sections |-> SectionsDefault(sections),
                   createdAt |-> now, updatedAt |-> now]
       IN [st |-> Append(st, doc), res |-> Json("create", id, 201, "", <<doc>>)]
  ELSE [st |-> st,
        res |-> Json("create", NoId, 500, "Failed to create email template.", <<>>)]

ListFirstOnly(st, ok) ==
  [st |-> st,
   res |-> Json("list", NoId, 200, "", IF st = <<>> THEN <<>> ELSE <<st[1]>>)]

ListHandler(st, ok) ==
  IF ok
  THEN [st |-> st, res |-> Json("list", NoId, 200, "", st)]
  ELSE [st |-> st,
        res |-> Json("list", NoId, 500, "Failed to fetch email templates.", <<>>)]

GetHandler(st, id, ok) ==
  IF ~CastsToObjectId(id) \/ ~ok
  THEN [st |-> st,
        res |-> Json("get", id, 500, "Failed to fetch the email template.", <<>>)]
  ELSE IF Find(st, id) = <<>>
  THEN [st |-> st, res |-> Json("get", id, 404, "Template not found.", <<>>)]
  ELSE [st |-> st, res |-> Json("get", id, 200, "", Find(st, id))]

UpdateUpsert(st, id, now, title, sections, omit, ok) ==
  LET doc == [id |-> id, title |-> title, sections |-> sections,
              createdAt |-> now, updatedAt |-> now]
  IN [st |-> Append(Remove(st, id), doc), res |-> Json("update", id, 200, "", <<doc>>)]

UpdateHandler(st, id, now, title, sections, omit, ok) ==
  IF ~CastsToObjectId(id) \/ ~ok
  THEN [st |-> st,
        res |-> Json("update", id, 500, "Failed to update the email template.", <<>>)]
  ELSE IF Find(st, id) = <<>>
  THEN [st |-> st, res |-> Json("update", id, 404, "Template not found.", <<>>)]
  ELSE LET old == Find(st, id)[1]
           doc == [old EXCEPT !.title = SetTitle(old.title, title, omit),
                              !.sections = SetSections(old.sections, sections, omit),
                              !.updatedAt = now]
       IN [st |-> Replace(st, doc), res |-> Json("update", id, 200, "", <<doc>>)]

DeleteAlwaysOk(st, id, ok) ==
  [st |-> Remove(st, id), res |-> Json("delete", id, 200, "", <<>>)]

DeleteHandler(st, id, ok) ==
  IF ~CastsToObjectId(id) \/ ~ok
  THEN [st |-> st,
        res |-> Json("delete", id, 500, "Failed to delete the email template.", <<>>)]
  ELSE IF Find(st, id) = <<>>
  THEN [st |-> st, res |-> Json("delete", id, 404, "Template not found.", <<>>)]
  ELSE [st |-> Remove(st, id), res |-> Json("delete", id, 200, "", <<>>)]

\* upload.single('image') then the route: [hosted, res]
UploadHandler(h, file, hostOk) ==
  IF file = "none"
  THEN [hosted |-> h, res |-> Json("upload", NoId, 400, "No image uploaded.", <<>>)]
  ELSE IF file = "other" \/ file \notin AllowedFormats \/ ~hostOk
  THEN [hosted |-> h, res |-> DefaultErrorHandler("upload", 500)]
  ELSE [hosted |-> h \cup {file}, res |-> Json("upload", NoId, 200, "", <<>>)]

\* ---------------------------------------------------------------- actions
Idle == [phase |-> "idle", op |-> "none", id |-> NoId, title |-> Undefined,
         sections |-> NoSections, now |-> 0, raced |-> FALSE, res |-> NoResponse]

Init ==
  /\ store = <<>>
  /\ nextId = 1
  /\ clock = 0
  /\ omitUndefined \in BOOLEAN
  /\ hosted = {}
  /\ res = NoResponse
  /\ created = {}
  /\ deleted = {}
  /\ inflight = [p \in Procs |-> Idle]
  /\ store0 = <<>>

Tick ==
  /\ clock < MaxClock
  /\ clock' = clock + 1
  /\ UNCHANGED <<store, nextId, omitUndefined, hosted, res, created, deleted,
                 inflight, store0>>

Create(title, sections, ok) ==
  /\ LET r == CreateHandler(store, nextId, clock, title, sections, ok)
     IN /\ store' = r.st
        /\ res' = r.res
        /\ created' = IF r.res.status = 201 THEN created \cup {nextId} ELSE created
  /\ nextId' = nextId + 1
  /\ UNCHANGED <<clock, omitUndefined, hosted, deleted, inflight, store0>>

List(ok) ==
  /\ res' = ListHandler(store, ok).res
  /\ UNCHANGED <<store, nextId, clock, omitUndefined, hosted, created, deleted,
                 inflight, store0>>

Get(id, ok) ==
  /\ res' = GetHandler(store, id, ok).res
  /\ UNCHANGED <<store, nextId, clock, omitUndefined, hosted, created, deleted,
                 inflight, store0>>

Update(id, title, sections, ok) ==
  /\ LET r == UpdateHandler(store, id, clock, title, sections, omitUndefined, ok)
     IN /\ store' = r.st
        /\ res' = r.res
  /\ UNCHANGED <<nextId, clock, omitUndefined, hosted, created, deleted,
                 inflight, store0>>

Delete(id, ok) ==
  /\ LET r == DeleteHandler(store, id, ok)
     IN /\ store' = r.st
        /\ res' = r.res
        /\ deleted' = IF r.res.status = 200 THEN deleted \cup {id} ELSE deleted
  /\ UNCHANGED <<nextId, clock, omitUndefined, hosted, created, inflight, store0>>

Upload(file, hostOk) ==
  /\ LET r == UploadHandler(hosted, file, hostOk)
     IN /\ hosted' = r.hosted
        /\ res' = r.res
  /\ UNCHANGED <<store, nextId, clock, omitUndefined, created, deleted,
                 inflight, store0>>

\* express.json() rejects the body of a POST or PUT before the route runs
BadBody(op) ==
  /\ res' = DefaultErrorHandler(op, 400)
  /\ UNCHANGED <<store, nextId, clock, omitUndefined, hosted, created, deleted,
                 inflight, store0>>

\* The template routes with request bodies over T x S, creating while the
\* ids last; a rejected store call answers the same whatever the body.
Requests(T, S, limit) ==
  \/ \E t \in T, s \in S : nextId <= limit /\ Create(t, s, TRUE)
  \/ nextId <= limit /\ Create("A", S12, FALSE)
  \/ \E ok \in BOOLEAN : List(ok)
  \/ \E id \in Ids, ok \in BOOLEAN : Get(id, ok)
  \/ \E id \in Ids, t \in T, s \in S : Update(id, t, s, TRUE)
  \/ \E id \in Ids : Update(id, "A", S12, FALSE)
  \/ \E id \in Ids, ok \in BOOLEAN : Delete(id, ok)

Next ==
  \/ Requests(Titles, SectionsIn, MaxDocs)
  \/ \E f \in Uploads, ok \in BOOLEAN : Upload(f, ok)
  \/ \E op \in {"create", "update"} : BadBody(op)

Spec == Init /\ [][Next]_vars

NextIds == Requests({"A", Undefined}, {S12}, MaxId)

SpecIds == Init /\ [][NextIds]_vars

NextClock == Tick \/ Requests({"A", "B"}, {S12, S21}, MaxDocs)

SpecClock == Init /\ [][NextClock]_vars

\* ------------------------------------------------------ requests in flight
\* A handler runs to its await (Arrive*: the body is read, the ObjectId and
\* the timestamp of the write are made), the store executes the one call and
\* the handler answers (Complete).  Each slot serves one request.

Doc1 == [id |-> 1, title |-> "A", sections |-> S12, createdAt |-> 0, updatedAt |-> 0]

InitConc ==
  /\ store \in {<<>>, <<Doc1>>}
  /\ store0 = store
  /\ nextId = Len(store) + 1
  /\ clock = 0
  /\ omitUndefined \in BOOLEAN
  /\ hosted = {}
  /\ res = NoResponse
  /\ created = StoreIds(store)
  /\ deleted = {}
  /\ inflight = [p \in Procs |-> Idle]

Awaiting(p) == inflight[p].phase = "await"

\* slot p takes a request; it and every request it overlaps are marked raced
Taken(p, op, id, title, sections) ==
  [q \in Procs |->
     IF q = p
     THEN [phase |-> "await", op |-> op, id |-> id, title |-> title,
           sections |-> sections, now |-> clock,
           raced |-> \E o \in Procs \ {p} : Awaiting(o), res |-> NoResponse]
     ELSE IF Awaiting(q) THEN [inflight[q] EXCEPT !.raced = TRUE]
     ELSE inflight[q]]

ArriveCreate(p, title, sections) ==
  /\ inflight[p].phase = "idle"
  /\ inflight' = Taken(p, "create", nextId, title, sections)
  /\ nextId' = nextId + 1
  /\ UNCHANGED <<store, clock, omitUndefined, hosted, res, created, deleted, store0>>

ArriveUpdate(p, id, title, sections) ==
  /\ inflight[p].phase = "idle"
  /\ inflight' = Taken(p, "update", id, title, sections)
  /\ UNCHANGED <<store, nextId, clock, omitUndefined, hosted, res, created,
                 deleted, store0>>

ArriveById(p, op, id) ==
  /\ inflight[p].phase = "idle"
  /\ inflight' = Taken(p, op, id, Undefined, NoSections)
  /\ UNCHANGED <<store, nextId, clock, omitUndefined, hosted, res, created,
                 deleted, store0>>

\* the store call of request q against collection st, and the response
Apply(st, q) ==
  CASE q.op = "create" -> CreateHandler(st, q.id, q.now, q.title, q.sections, TRUE)
    [] q.op = "get"    -> GetHandler(st, q.id, TRUE)
    [] q.op = "update" -> UpdateHandler(st, q.id, q.now, q.title, q.sections,
                                        omitUndefined, TRUE)
    [] q.op = "delete" -> DeleteHandler(st, q.id, TRUE)

Complete(p) ==
  /\ Awaiting(p)
  /\ LET r == Apply(store, inflight[p])
     IN /\ store' = r.st
        /\ inflight' = [inflight EXCEPT ![p].phase = "done", ![p].res = r.res]
        /\ created' = IF r.res.status = 201 THEN created \cup {r.res.id} ELSE created
        /\ deleted' = IF r.res.op = "delete" /\ r.res.status = 200
                      THEN deleted \cup {r.res.id} ELSE deleted
  /\ UNCHANGED <<nextId, clock, omitUndefined, hosted, res, store0>>

NextConc ==
  \/ Tick
  \/ \E p \in Procs, t \in {"A", "B"} : ArriveCreate(p, t, S21)
  \/ \E p \in Procs, id \in 1..MaxId, t \in {"B", Undefined} : ArriveUpdate(p, id, t, S21)
  \/ \E p \in Procs, op \in {"get", "delete"}, id \in 1..MaxId : ArriveById(p, op, id)
  \/ \E p \in Procs : Complete(p)

SpecConc == InitConc /\ [][NextConc]_vars

\* ------------------------------------------------------------------ claims
DocIds(docs) == {docs[i].id : i \in 1..Len(docs)}

NotFound(r) == r.status = 404 /\ r.ctype = "json" /\ r.error = "Template not found."

\* C1 (as claimed): for every id that identifies no stored template, the
\* malformed one included, GET, PUT and DELETE answer 404 {error: "Template
\* not found."}, never 500, while the store answers.
C1_MissingIdIs404 ==
  \A id \in Ids \ StoreIds(store) :
    /\ NotFound(GetHandler(store, id, TRUE).res)
    /\ NotFound(UpdateHandler(store, id, clock, "A", S12, omitUndefined, TRUE).res)
    /\ NotFound(DeleteHandler(store, id, TRUE).res)

\* C2: a create with a non-empty title and a sections array answers 201 with
\* a generated id no template had, and a getById of that id right after it
\* returns that title and those sections, element for element in order.
C2_CreateRoundTrip ==
  [][\A t \in Titles \ {Undefined, Null, ""}, s \in SectionsIn \ {NoSections} :
       (res'.op = "create" /\ Create(t, s, TRUE)) =>
         /\ res'.status = 201
         /\ res'.id = nextId
         /\ res'.id \notin {NoId, BadId} \cup StoreIds(store) \cup created \cup deleted
         /\ LET g == GetHandler(store', res'.id, TRUE).res
            IN /\ g.status = 200
               /\ Len(g.docs) = 1
               /\ g.docs[1].id = res'.id
               /\ g.docs[1].title = t
               /\ g.docs[1].sections = s]_vars

\* C2 witness: a create answered 201 and getById returns the document submitted.
C2_Witness ==
  /\ res.op = "create" /\ res.status = 201
  /\ res.docs[1].title = "B" /\ res.docs[1].sections = S21
  /\ GetHandler(store, res.id, TRUE).res.docs = res.docs

\* C3 (as claimed): every stored template has a present, non-empty title.
C3_TitleAlwaysPresent ==
  \A i \in 1..Len(store) : store[i].title \notin {Undefined, Null, ""}

\* C4 (as claimed): an update of an existing id is reflected by getById, with
\* an updatedAt strictly greater than before the update.
C4_UpdatedAtStrictlyGreater ==
  [][\A id \in Ids, t \in {"A", "B"}, s \in {S12, S21} :
       (res'.op = "update" /\ res'.status = 200 /\ res'.id = id
        /\ Update(id, t, s, TRUE)) =>
         LET g == GetHandler(store', id, TRUE).res
         IN /\ g.status = 200
            /\ g.docs[1].title = t /\ g.docs[1].sections = s
            /\ g.docs[1].updatedAt > Find(store, id)[1].updatedAt]_vars

\* C4 (amended): an update of an existing id is reflected by getById, with an
\* updatedAt that is the time of the update and is greater than or equal to
\* the updatedAt before it.
C4_UpdateReflected ==
  [][\A id \in Ids, t \in {"A", "B"}, s \in {S12, S21} :
       (res'.op = "update" /\ res'.status = 200 /\ res'.id = id
        /\ Update(id, t, s, TRUE)) =>
         LET g == GetHandler(store', id, TRUE).res
         IN /\ g.status = 200
            /\ g.docs[1].title = t /\ g.docs[1].sections = s
            /\ g.docs[1].updatedAt = clock
            /\ g.docs[1].updatedAt >= Find(store, id)[1].updatedAt]_vars

\* C4 witness: an update at a later clock reading answered 200.
C4_Witness ==
  /\ res.op = "update" /\ res.status = 200
  /\ res.docs[1].title = "B" /\ res.docs[1].sections = S21
  /\ res.docs[1].updatedAt > res.docs[1].createdAt
  /\ GetHandler(store, res.id, TRUE).res.docs = res.docs

\* C5 (as claimed): every failure response is a JSON object with an `error`
\* key and a 4xx/5xx status.
C5_FailuresAreJsonErrors ==
  (res.op # "none" /\ res.status \notin {200, 201}) =>
    (res.status >= 400 /\ res.ctype = "json" /\ res.error # "")

\* C6: once DELETE of an id has answered 200, the id is in no later state of
\* the collection and getById of it answers 404, whatever create, update and
\* delete requests follow.
C6_DeletedStaysGone ==
  \A id \in deleted :
    /\ id \notin StoreIds(store)
    /\ NotFound(GetHandler(store, id, TRUE).res)

\* C6 witness: an update of a deleted id answered 404 and left it absent.
C6_Witness ==
  /\ res.op = "update" /\ res.id \in deleted /\ res.status = 404
  /\ store # <<>>
  /\ NotFound(GetHandler(store, res.id, TRUE).res)

\* C7: a create whose title is missing, or whose store write is rejected,
\* answers 500 {error: "Failed to create email template."}, never 201, and
\* leaves the collection as it was.
C7_FailedCreate ==
  [][\A t \in Titles, s \in SectionsIn, ok \in BOOLEAN :
       ((t = Undefined \/ ~ok) /\ res'.op = "create" /\ Create(t, s, ok)) =>
         /\ res' = Json("create", NoId, 500, "Failed to create email template.", <<>>)
         /\ store' = store
         /\ created' = created]_vars

\* C7 witness: a create failed while the collection held a template.
C7_Witness ==
  /\ res.op = "create" /\ res.status = 500
  /\ res.error = "Failed to create email template."
  /\ store # <<>> /\ Len(store) = nextId - 2

\* C8 (as claimed): an upload request carrying no `image` file field answers
\* 400 with an error message and changes neither the collection nor the
\* media host.
C8_NoImageIs400 ==
  [][\A f \in {"none", "other"}, hostOk \in BOOLEAN :
       (res'.op = "upload" /\ Upload(f, hostOk)) =>
         /\ res'.status = 400 /\ res'.error # ""
         /\ store' = store
         /\ hosted' = hosted]_vars

\* C9: listAll answers 200 with every created template that was not deleted
\* since, so with at least N templates after N creates and no delete.
C9_ListHasAllCreated ==
  LET r == ListHandler(store, TRUE).res
  IN /\ r.status = 200
     /\ (created \ deleted) \subseteq DocIds(r.docs)
     /\ Len(r.docs) >= Cardinality(created \ deleted)
     /\ (deleted = {} => Len(r.docs) >= Cardinality(created))

\* C9 witness: listAll answered with both of two created templates.
C9_Witness ==
  /\ res.op = "list" /\ res.status = 200
  /\ Cardinality(created) = 2 /\ deleted = {}
  /\ Len(res.docs) = 2 /\ DocIds(res.docs) = created
  /\ res = ListHandler(store, TRUE).res

\* the responses and the collection after requests a then b, one at a time
InOrder(a, b) ==
  LET ra == Apply(store0, inflight[a])
      rb == Apply(ra.st, inflight[b])
  IN store = rb.st /\ inflight[a].res = ra.res /\ inflight[b].res = rb.res

====
